---- MODULE Spec2Model ----
(***************************************************************************)
(* Model of scripts/ddg_search.py: the function search(query, max_results) *)
(* and the command-line entry point that calls it once and prints the      *)
(* JSON serialization of what it returns.                                  *)
(*                                                                         *)
(* The duckduckgo_search library (DDGS) is outside the repository.  It is  *)
(* modelled as an environment that, at each point where the script calls   *)
(* into it, either answers or raises an exception object.                  *)
(*                                                                         *)
(* Python values are tagged so that a string, None and a missing dict key  *)
(* are three different things: Str(s), None and Absent.  An optional       *)
(* local (not yet assigned) is a sequence of length 0 or 1.                *)
(***************************************************************************)
EXTENDS Integers, Sequences, FiniteSets, TLC

VARIABLES
    argv,         \* sys.argv, script name first: Python argv[i] is argv[i+1] here
    pc,           \* position of the single thread of control
    query,        \* main's local `query`              (<<>> until assigned)
    max_results,  \* main's local `max_results`        (<<>> until assigned)
    ddgs,         \* the DDGS session handle: "none", "held" or "released"
    results,      \* search's local accumulator `results`
    r,            \* the loop variable `r`             (<<>> outside the body)
    exc,          \* the exception in flight inside search (<<>> when none)
    retval,       \* value of the `return` expression awaiting the with-exit
    result,       \* main's local `result`             (<<>> until assigned)
    stdout,       \* lines printed to standard output
    exitCode,     \* <<>> while running, <<code>> once the process has ended
    traceback,    \* TRUE iff the interpreter ended on an uncaught exception
    yielded,      \* history: the records the capability has produced
    requested,    \* history: the (query, max_results) pairs passed to ddgs.text
    faulted,      \* history: TRUE iff the capability raised during this search
    nSearch,      \* history: calls of search
    nAcquire,     \* history: successful acquisitions of the handle
    nAttempt,     \* history: attempts to acquire the handle
    nRelease      \* history: releases of the handle

vars == <<argv, pc, query, max_results, ddgs, results, r, exc, retval, result,
          stdout, exitCode, traceback, yielded, requested, faulted,
          nSearch, nAcquire, nAttempt, nRelease>>

(***************************************************************************)
(* Bounds of the model.                                                    *)
(***************************************************************************)
\* The capability produces at most this many records in one search.
MaxRecords == 3

(***************************************************************************)
(* Python values.                                                          *)
(***************************************************************************)
Str(s) == [t |-> "str", v |-> s]
None == [t |-> "none", v |-> ""]
Absent == [t |-> "absent", v |-> ""]

\* An upstream object handed out by the iteration.  isdict = FALSE is an
\* object without a .get method (for instance None).
Rec(title, href, body) ==
    [isdict |-> TRUE, title |-> title, href |-> href, body |-> body]

NotADict == [isdict |-> FALSE, title |-> Absent, href |-> Absent, body |-> Absent]

RecordSet ==
    { Rec(Str("t1"), Str("u1"), Str("b1")),
      Rec(Str("t2"), Str("u2"), Str("b2")),
      Rec(Absent, Str("u3"), Absent),
      Rec(Str("t4"), Absent, None),
      Rec(None, Str("u5"), Str("b5")),
      NotADict }

\* An exception object: its class and its args tuple.
Exc(cls, args) == [cls |-> cls, args |-> args]

\* What the capability may raise: an Exception with a message, an Exception
\* constructed without arguments, and an exception that derives from
\* BaseException but not from Exception (KeyboardInterrupt, SystemExit, ...).
FaultSet ==
    { Exc("Exception", <<"rate limited">>),
      Exc("Exception", <<>>),
      Exc("BaseException", <<"interrupted">>) }

\* isinstance(e, Exception)
IsException(e) == e.cls # "BaseException"

\* str(e) for an exception: '' without args, the argument when there is one.
ExcStr(e) == IF Len(e.args) = 0 THEN "" ELSE e.args[1]

\* The command lines the model starts from.  The second argument is kept as
\* a sequence of characters because int() reads it character by character.
QuerySet == {"", "test", "two words"}

MaxArgSet ==
    { <<"2">>, <<"0">>, <<"1", "0">>, <<"-", "1">>, <<" ", "3", " ">>,
      <<"+", "1">>, <<"a", "b", "c">>, <<"2", ".", "5">>, <<>> }

ArgvSet ==
    {<<"ddg_search.py">>}
      \cup {<<"ddg_search.py", q>> : q \in QuerySet}
      \cup {<<"ddg_search.py", q, m>> : q \in QuerySet, m \in MaxArgSet}

(***************************************************************************)
(* Pure functions of the script and of the Python runtime it relies on.    *)
(***************************************************************************)
\* The default of max_results (the parameter default and the CLI default).
DefaultMaxResults == 20

Digits == <<"0", "1", "2", "3", "4", "5", "6", "7", "8", "9">>

IsDigit(c) == \E i \in 1..Len(Digits) : Digits[i] = c

DigitValue(c) == (CHOOSE i \in 1..Len(Digits) : Digits[i] = c) - 1

RECURSIVE StripLeft(_)
StripLeft(s) == IF s # <<>> /\ Head(s) = " " THEN StripLeft(Tail(s)) ELSE s

RECURSIVE StripRight(_)
StripRight(s) ==
    IF s # <<>> /\ s[Len(s)] = " " THEN StripRight(SubSeq(s, 1, Len(s) - 1)) ELSE s

\* The digits of an int() literal: surrounding whitespace and one sign removed.
IntDigits(s) ==
    LET t == StripRight(StripLeft(s))
    IN  IF t # <<>> /\ Head(t) \in {"+", "-"} THEN Tail(t) ELSE t

IntNegative(s) ==
    LET t == StripRight(StripLeft(s)) IN t # <<>> /\ Head(t) = "-"

\* int(s) on a text of ASCII characters without underscores: it succeeds
\* iff, after stripping, s is an optional sign and one or more decimal
\* digits; otherwise it raises ValueError.
IntParses(s) ==
    LET d == IntDigits(s)
    IN  d # <<>> /\ \A i \in 1..Len(d) : IsDigit(d[i])

RECURSIVE DigitsValue(_)
DigitsValue(d) ==
    IF d = <<>> THEN 0
    ELSE 10 * DigitsValue(SubSeq(d, 1, Len(d) - 1)) + DigitValue(d[Len(d)])

\* int(s), where IntParses(s).
IntValue(s) ==
    IF IntNegative(s) THEN 0 - DigitsValue(IntDigits(s)) ELSE DigitsValue(IntDigits(s))

AttributeError == Exc("AttributeError", <<"object has no attribute 'get'">>)

\* Mutant: the argument count test is off by one.
MissingQueryOffByOne(a) == Len(a) < 1

\* len(sys.argv) < 2
MissingQuery(a) == Len(a) < 2

\* int(sys.argv[2]) if len(sys.argv) > 2 else 20, where it does not raise.
ParseMaxResults(a) == IF Len(a) > 2 THEN IntValue(a[3]) ELSE DefaultMaxResults

\* Lines 43-44 raise: sys.argv[1] raises IndexError when there is no such
\* element, int() raises ValueError when the text is no integer literal.
ArgsRaise(a) == Len(a) < 2 \/ (Len(a) > 2 /\ ~IntParses(a[3]))

\* rec.get(key, default) on a dict: the default is used only when the key is
\* missing; a key that is present with the value None yields None.
DictGet(rec, key, default) == IF rec[key].t = "absent" THEN default ELSE rec[key]

\* The dict appended for one record.
SearchResult(rec) ==
    [title       |-> DictGet(rec, "title", Str("")),
     url         |-> DictGet(rec, "href", Str("")),
     description |-> DictGet(rec, "body", Str("")),
     source      |-> Str("ddg-python")]

\* Mutant: the new result is put in front of the accumulated ones.
AppendResultInFront(acc, rec) == <<SearchResult(rec)>> \o acc

\* results.append(...)
AppendResult(acc, rec) == Append(acc, SearchResult(rec))

\* The dict returned when the iteration completes.
SuccessResponse(q, res) ==
    [success |-> TRUE, query |-> q, results |-> res, count |-> Len(res)]

\* Mutant: the failure dict carries a count as well.
FailureResponseWithCount(e, q) ==
    [success |-> FALSE, error |-> ExcStr(e), query |-> q, results |-> <<>>,
     count |-> 0]

\* Mutant: the failure dict echoes a blank query.
FailureResponseBlankQuery(e, q) ==
    [success |-> FALSE, error |-> ExcStr(e), query |-> "", results |-> <<>>]

\* The dict returned by the except clause.
FailureResponse(e, q) ==
    [success |-> FALSE, error |-> ExcStr(e), query |-> q, results |-> <<>>]

\* json.dumps of the values that occur.  Keys come out in insertion order,
\* separated by ", " and ": "; None is null, True/False are true/false.  The
\* strings of the model are ASCII and contain nothing JSON escapes.
JsonStr(s) == "\"" \o s \o "\""

JsonValue(v) == IF v.t = "none" THEN "null" ELSE JsonStr(v.v)

JsonSearchResult(sr) ==
    "{\"title\": " \o JsonValue(sr.title) \o ", \"url\": " \o JsonValue(sr.url)
      \o ", \"description\": " \o JsonValue(sr.description)
      \o ", \"source\": " \o JsonValue(sr.source) \o "}"

RECURSIVE JsonItems(_)
JsonItems(res) ==
    IF res = <<>> THEN ""
    ELSE IF Len(res) = 1 THEN JsonSearchResult(res[1])
    ELSE JsonSearchResult(res[1]) \o ", " \o JsonItems(Tail(res))

JsonResponse(resp) ==
    IF resp.success
    THEN "{\"success\": true, \"query\": " \o JsonStr(resp.query)
           \o ", \"results\": [" \o JsonItems(resp.results)
           \o "], \"count\": " \o ToString(resp.count) \o "}"
    ELSE "{\"success\": false, \"error\": " \o JsonStr(resp.error)
           \o ", \"query\": " \o JsonStr(resp.query)
           \o ", \"results\": [" \o JsonItems(resp.results) \o "]}"

\* json.dumps({'error': 'No query provided'})
UsageErrorLine == "{\"error\": " \o JsonStr("No query provided") \o "}"

\* The exit status of sys.exit(1) and of an uncaught exception.
UsageExitCode == 1

UncaughtExitCode == 1

\* The exit status when the script runs off its end.
NormalExitCode == 0

(***************************************************************************)
(* Initial state: the interpreter is about to run line 39.                 *)
(***************************************************************************)
Init ==
    /\ argv \in ArgvSet
    /\ pc = "main"
    /\ query = <<>>
    /\ max_results = <<>>
    /\ ddgs = "none"
    /\ results = <<>>
    /\ r = <<>>
    /\ exc = <<>>
    /\ retval = <<>>
    /\ result = <<>>
    /\ stdout = <<>>
    /\ exitCode = <<>>
    /\ traceback = FALSE
    /\ yielded = <<>>
    /\ requested = <<>>
    /\ faulted = FALSE
    /\ nSearch = 0
    /\ nAcquire = 0
    /\ nAttempt = 0
    /\ nRelease = 0

searchVars == <<ddgs, results, r, exc, retval, yielded, requested, faulted,
                nAcquire, nAttempt, nRelease>>

(***************************************************************************)
(* The entry point.                                                        *)
(***************************************************************************)
\* if len(sys.argv) < 2: print(json.dumps({'error': ...})); sys.exit(1)
MainUsage ==
    /\ pc = "main"
    /\ MissingQuery(argv)
    /\ stdout' = Append(stdout, UsageErrorLine)
    /\ exitCode' = <<UsageExitCode>>
    /\ pc' = "exit"
    /\ UNCHANGED <<argv, query, max_results, result, traceback, nSearch>>
    /\ UNCHANGED searchVars

\* query = sys.argv[1]; max_results = int(sys.argv[2]) if ... else 20
\* An exception raised here is caught nowhere: the interpreter prints a
\* traceback on stderr and ends with status 1.
MainArgs ==
    /\ pc = "main"
    /\ ~MissingQuery(argv)
    /\ query' = IF Len(argv) < 2 THEN query ELSE <<argv[2]>>
    /\ IF ArgsRaise(argv)
       THEN /\ pc' = "exit"
            /\ exitCode' = <<UncaughtExitCode>>
            /\ traceback' = TRUE
            /\ UNCHANGED max_results
       ELSE /\ max_results' = <<ParseMaxResults(argv)>>
            /\ pc' = "call"
            /\ UNCHANGED <<exitCode, traceback>>
    /\ UNCHANGED <<argv, result, stdout, nSearch>>
    /\ UNCHANGED searchVars

\* result = search(query, max_results): control enters the try block.
MainCall ==
    /\ pc = "call"
    /\ nSearch' = nSearch + 1
    /\ pc' = "acquire"
    /\ UNCHANGED <<argv, query, max_results, result, stdout, exitCode, traceback>>
    /\ UNCHANGED searchVars

\* Mutant: a failed search is tried once more before anything is printed.
MainPrintRetry ==
    /\ pc = "print"
    /\ IF ~result[1].success /\ nSearch < 2
       THEN /\ result' = <<>>
            /\ pc' = "call"
            /\ UNCHANGED <<stdout, exitCode>>
       ELSE /\ stdout' = Append(stdout, JsonResponse(result[1]))
            /\ exitCode' = <<NormalExitCode>>
            /\ pc' = "exit"
            /\ UNCHANGED result
    /\ UNCHANGED <<argv, query, max_results, traceback, nSearch>>
    /\ UNCHANGED searchVars

\* print(json.dumps(result, ensure_ascii=False)); the script ends.
MainPrint ==
    /\ pc = "print"
    /\ stdout' = Append(stdout, JsonResponse(result[1]))
    /\ exitCode' = <<NormalExitCode>>
    /\ pc' = "exit"
    /\ UNCHANGED <<argv, query, max_results, result, traceback, nSearch>>
    /\ UNCHANGED searchVars

mainVars == <<argv, query, max_results, stdout, nSearch>>

(***************************************************************************)
(* search(query, max_results).                                             *)
(***************************************************************************)
\* with DDGS() as ddgs: results = []
\* Either the handle is acquired, or the constructor or __enter__ raises
\* and there is no handle (and __exit__ is not called).
Acquire ==
    /\ pc = "acquire"
    /\ nAttempt' = nAttempt + 1
    /\ \/ /\ ddgs' = "held"
          /\ nAcquire' = nAcquire + 1
          /\ results' = <<>>
          /\ pc' = "text"
          /\ UNCHANGED <<exc, faulted>>
       \/ \E e \in FaultSet :
            /\ exc' = <<e>>
            /\ faulted' = TRUE
            /\ pc' = "except"
            /\ UNCHANGED <<ddgs, nAcquire, results>>
    /\ UNCHANGED <<r, retval, yielded, requested, nRelease>>
    /\ UNCHANGED <<result, exitCode, traceback>>
    /\ UNCHANGED mainVars

\* ddgs.text(query, max_results=max_results): the one request.
Text ==
    /\ pc = "text"
    /\ requested' = Append(requested, <<query[1], max_results[1]>>)
    /\ \/ /\ pc' = "iter"
          /\ UNCHANGED <<exc, faulted>>
       \/ \E e \in FaultSet :
            /\ exc' = <<e>>
            /\ faulted' = TRUE
            /\ pc' = "with_exit"
    /\ UNCHANGED <<ddgs, results, r, retval, yielded, nAcquire, nAttempt, nRelease>>
    /\ UNCHANGED <<result, exitCode, traceback>>
    /\ UNCHANGED mainVars

\* for r in ...: the iteration produces the next record,
Yield ==
    /\ pc = "iter"
    /\ Len(yielded) < MaxRecords
    /\ \E rec \in RecordSet :
         /\ yielded' = Append(yielded, rec)
         /\ r' = <<rec>>
    /\ pc' = "append"
    /\ UNCHANGED <<ddgs, results, exc, retval, requested, faulted,
                   nAcquire, nAttempt, nRelease>>
    /\ UNCHANGED <<result, exitCode, traceback>>
    /\ UNCHANGED mainVars

\* or is exhausted, and the return expression of lines 24-29 is evaluated,
Exhaust ==
    /\ pc = "iter"
    /\ retval' = <<SuccessResponse(query[1], results)>>
    /\ r' = <<>>
    /\ pc' = "with_exit"
    /\ UNCHANGED <<ddgs, results, exc, yielded, requested, faulted,
                   nAcquire, nAttempt, nRelease>>
    /\ UNCHANGED <<result, exitCode, traceback>>
    /\ UNCHANGED mainVars

\* or raises.
IterFault ==
    /\ pc = "iter"
    /\ \E e \in FaultSet : exc' = <<e>>
    /\ faulted' = TRUE
    /\ r' = <<>>
    /\ pc' = "with_exit"
    /\ UNCHANGED <<ddgs, results, retval, yielded, requested,
                   nAcquire, nAttempt, nRelease>>
    /\ UNCHANGED <<result, exitCode, traceback>>
    /\ UNCHANGED mainVars

\* results.append({...}): r.get raises AttributeError when r has no .get.
AppendStep ==
    /\ pc = "append"
    /\ IF r[1].isdict
       THEN /\ results' = AppendResult(results, r[1])
            /\ pc' = "iter"
            /\ UNCHANGED <<exc, faulted>>
       ELSE /\ exc' = <<AttributeError>>
            /\ faulted' = TRUE
            /\ pc' = "with_exit"
            /\ UNCHANGED results
    /\ UNCHANGED <<ddgs, r, retval, yielded, requested, nAcquire, nAttempt, nRelease>>
    /\ UNCHANGED <<result, exitCode, traceback>>
    /\ UNCHANGED mainVars

\* Mutant: the handle is closed by hand at the end of the block, so an
\* exception leaves the block without releasing it.
WithExitOnReturnOnly ==
    /\ pc = "with_exit"
    /\ IF exc = <<>>
       THEN /\ ddgs' = "released"
            /\ nRelease' = nRelease + 1
            /\ pc' = "return"
       ELSE /\ pc' = "except"
            /\ UNCHANGED <<ddgs, nRelease>>
    /\ UNCHANGED <<results, r, exc, retval, yielded, requested, faulted,
                   nAcquire, nAttempt>>
    /\ UNCHANGED <<result, exitCode, traceback>>
    /\ UNCHANGED <<argv, query, max_results, stdout, nSearch>>

\* Leaving the with block, by return or by exception, calls __exit__, which
\* releases the handle and does not swallow the exception.
WithExit ==
    /\ pc = "with_exit"
    /\ ddgs' = "released"
    /\ nRelease' = nRelease + 1
    /\ pc' = IF exc = <<>> THEN "return" ELSE "except"
    /\ UNCHANGED <<results, r, exc, retval, yielded, requested, faulted,
                   nAcquire, nAttempt>>
    /\ UNCHANGED <<result, exitCode, traceback>>
    /\ UNCHANGED mainVars

\* The return of line 24 completes: main's `result` is bound.
Return ==
    /\ pc = "return"
    /\ result' = retval
    /\ pc' = "print"
    /\ UNCHANGED <<exitCode, traceback>>
    /\ UNCHANGED searchVars
    /\ UNCHANGED mainVars

\* except Exception as e: return {...}.  An exception that is not an
\* Exception passes through search and main: traceback, status 1.
Except ==
    /\ pc = "except"
    /\ IF IsException(exc[1])
       THEN /\ result' = <<FailureResponse(exc[1], query[1])>>
            /\ exc' = <<>>
            /\ pc' = "print"
            /\ UNCHANGED <<exitCode, traceback>>
       ELSE /\ pc' = "exit"
            /\ exitCode' = <<UncaughtExitCode>>
            /\ traceback' = TRUE
            /\ UNCHANGED <<result, exc>>
    /\ UNCHANGED <<ddgs, results, r, retval, yielded, requested, faulted,
                   nAcquire, nAttempt, nRelease>>
    /\ UNCHANGED mainVars

Next ==
    \/ MainUsage
    \/ MainArgs
    \/ MainCall
    \/ Acquire
    \/ Text
    \/ Yield
    \/ Exhaust
    \/ IterFault
    \/ AppendStep
    \/ WithExit
    \/ Return
    \/ Except
    \/ MainPrint

Spec == Init /\ [][Next]_vars

\* The interpreter always runs the next statement: no step waits on anything
\* but the capability, which answers or raises.
FairSpec == Spec /\ WF_vars(Next)

\* The process has ended.
Exited == pc = "exit"

\* search has returned a response to main.
Returned == result # <<>>

(***************************************************************************)
(* Properties.                                                             *)
(***************************************************************************)
\* A record all of whose three fields are present strings.
WellFormed(rec) ==
    rec.isdict /\ rec.title.t = "str" /\ rec.href.t = "str" /\ rec.body.t = "str"

\* The second command-line argument is absent or was accepted by int().
ArgsAccepted == max_results # <<>>

\* C1 (as stated): whenever the capability raised during the search, at
\* acquisition, at the request, during the iteration or at a field access,
\* the process ends with search having returned success = false, no
\* results and a non-empty error string, and with no exception having
\* escaped search.
C1_FaultGivesFailureResponse ==
    (Exited /\ faulted) =>
        /\ ~traceback
        /\ Returned
        /\ result[1].success = FALSE
        /\ result[1].results = <<>>
        /\ result[1].error # ""

\* C2: for a non-empty query and a positive max_results = n, when the
\* capability produced k <= n well-formed records and was then exhausted
\* without any fault, search returns success = true, count = k and k
\* results, the i-th being the i-th record with title, href and body
\* carried over to title, url and description and the source tag added.
C2_ResultsAreTheRecordsInOrder ==
    ( /\ Returned
      /\ ~faulted
      /\ query[1] # ""
      /\ max_results[1] > 0
      /\ Len(yielded) <= max_results[1]
      /\ \A i \in 1..Len(yielded) : WellFormed(yielded[i]) ) =>
        /\ result[1].success = TRUE
        /\ result[1].count = Len(yielded)
        /\ Len(result[1].results) = Len(yielded)
        /\ \A i \in 1..Len(yielded) :
             result[1].results[i] =
                 [title       |-> yielded[i].title,
                  url         |-> yielded[i].href,
                  description |-> yielded[i].body,
                  source      |-> Str("ddg-python")]

\* C2 witness: search has returned after three well-formed records, not all
\* the same, with a cap that admits them.
C2_Witness ==
    /\ Returned
    /\ ~faulted
    /\ query[1] # ""
    /\ max_results[1] >= 3
    /\ Len(yielded) = 3
    /\ \A i \in 1..3 : WellFormed(yielded[i])
    /\ yielded[1] # yielded[2]
    /\ yielded[2] = yielded[3]

\* C3 (as stated): whenever search has returned a response, the handle has
\* been released exactly once, and no handle is held when the process ends.
C3_ReleasedOnceOnEveryReturn ==
    /\ Returned => (nRelease = 1 /\ ddgs = "released")
    /\ Exited => ddgs # "held"

\* C3 (amended): a handle that was acquired is released exactly once, after
\* the iteration completed or faulted and before search returns or lets an
\* exception through; when the acquisition itself raised there is no handle
\* and nothing is released; no handle is held when the process ends.
C3_AcquiredHandleReleasedOnce ==
    /\ nRelease <= nAcquire
    /\ nAcquire <= 1
    /\ ddgs = "released" => pc \notin {"text", "iter", "append", "with_exit"}
    /\ (Returned \/ Exited) =>
          /\ ddgs # "held"
          /\ nRelease = nAcquire
          /\ ddgs = IF nAcquire = 1 THEN "released" ELSE "none"

\* C3 witness: search returned a failure after the iteration faulted with
\* records already produced, and the handle it held has been released.
C3_Witness ==
    /\ Returned
    /\ faulted
    /\ Len(yielded) > 0
    /\ nAcquire = 1
    /\ nRelease = 1
    /\ ddgs = "released"

\* C4 (as stated): a run with a query argument ends with exit code 0 and
\* without a traceback, whatever the second argument and the capability do;
\* exit code 1 occurs only when the query argument is missing.
C4_ExitCodeOneOnlyWithoutQuery ==
    Exited =>
        /\ Len(argv) >= 2 => (exitCode = <<0>> /\ ~traceback)
        /\ exitCode = <<1>> => Len(argv) < 2

\* C5 (as stated): every accumulated SearchResult has exactly the fields
\* title, url, description and source, each of them a string, and source is
\* the tag 'ddg-python'.
C5_AllFieldsAreStrings ==
    \A i \in 1..Len(results) :
        /\ DOMAIN results[i] = {"title", "url", "description", "source"}
        /\ \A k \in {"title", "url", "description", "source"} : results[i][k].t = "str"
        /\ results[i].source = Str("ddg-python")

\* C6 (as stated): a process that has ended has written exactly one line to
\* standard output, and no process ever writes more than one.
C6_ExactlyOneLine ==
    /\ Len(stdout) <= 1
    /\ Exited => Len(stdout) = 1

\* C7: in a run without a query argument search is never called, no handle
\* is acquired or asked for, the capability is never queried, and the
\* process ends with exit code 1, without a traceback, having printed the
\* one line {"error": "No query provided"}.
C7_UsageErrorBeforeAnySearch ==
    Len(argv) < 2 =>
        /\ nSearch = 0
        /\ nAttempt = 0
        /\ requested = <<>>
        /\ ddgs = "none"
        /\ pc \in {"main", "exit"}
        /\ Exited =>
              /\ stdout = <<"{\"error\": \"No query provided\"}">>
              /\ exitCode = <<1>>
              /\ ~traceback

\* C7 witness: a run without a query argument has ended.
C7_Witness == Len(argv) < 2 /\ Exited /\ stdout # <<>>

\* C8: a response returned by search has count iff success is true and
\* error iff success is false; it never has both and never neither.
C8_CountXorError ==
    Returned =>
        LET resp == result[1]
            hasCount == "count" \in DOMAIN resp
            hasError == "error" \in DOMAIN resp
        IN  /\ hasCount <=> resp.success
            /\ hasError <=> ~resp.success
            /\ hasCount # hasError

\* C8 witness: search returned a failure response after records had been
\* accumulated.
C8_Witness == Returned /\ ~result[1].success /\ results # <<>>

\* C9: the query field of every response search returns, and the query
\* given to the capability, are the query argument of the command line,
\* the empty string included.
C9_QueryEchoed ==
    /\ Returned => result[1].query = argv[2]
    /\ \A i \in 1..Len(requested) : requested[i][1] = argv[2]

\* C9 witness: search returned a failure response for a non-empty query.
C9_Witness ==
    Returned /\ ~result[1].success /\ argv[2] = "two words" /\ requested # <<>>

\* C10 (as stated): a process that has ended has called search exactly once,
\* with one acquisition and one request.
C10_ExactlyOneSearch ==
    Exited => (nSearch = 1 /\ nAttempt = 1 /\ Len(requested) = 1)

\* C10 (amended): every run ends; it calls search at most once and never
\* retries; a run whose arguments were accepted calls search exactly once,
\* with exactly one attempt to acquire the handle and one request iff the
\* handle was acquired, and that call returned or let an exception through;
\* a run without a query, or with a second argument int() rejects, calls
\* search not at all.
C10_TerminatesAfterAtMostOneSearch ==
    /\ <>Exited
    /\ [](/\ nSearch <= 1
          /\ nAttempt <= 1
          /\ Len(requested) <= 1
          /\ Exited =>
                IF ArgsAccepted
                THEN /\ nSearch = 1
                     /\ nAttempt = 1
                     /\ Len(requested) = nAcquire
                     /\ Returned \/ traceback
                ELSE /\ nSearch = 0
                     /\ nAttempt = 0
                     /\ requested = <<>>)

\* C10 witness: a run has ended after one search that faulted in the middle
\* of the iteration.
C10_Witness ==
    /\ Exited
    /\ nSearch = 1
    /\ nAttempt = 1
    /\ Len(requested) = 1
    /\ faulted
    /\ Len(yielded) = 2
    /\ Returned

====
